---- MODULE Spec2Model ----
(***************************************************************************)
(* x402-builder: the POST /build and GET /status/:jobId handlers of          *)
(* src/index.tsx (and the earlier revision src/unnamed/part_000), with the   *)
(* name extractors and the blueprint merge they call.                        *)
(*                                                                           *)
(* Strings the code scans (spec, name, context, assertion text, the random   *)
(* suffix) are sequences of one-character strings; text the code only        *)
(* copies (base assertion text, commentary, ids) is kept as one token.       *)
(***************************************************************************)
EXTENDS Naturals, Sequences, FiniteSets, TLC

VARIABLES rev, cfg, pc, req, serviceName, shortId, repoName, userBlueprint,
          finalBlueprint, calls, results, resp, probe, statusResp, exIn, exOut

vars == <<rev, cfg, pc, req, serviceName, shortId, repoName, userBlueprint,
          finalBlueprint, calls, results, resp, probe, statusResp, exIn, exOut>>

(***************************************************************************)
(* Characters and character classes                                          *)
(***************************************************************************)
LowerSeq == <<"a","b","c","d","e","f","g","h","i","j","k","l","m","n","o","p","q","r","s","t","u","v","w","x","y","z">>

UpperSeq == <<"A","B","C","D","E","F","G","H","I","J","K","L","M","N","O","P","Q","R","S","T","U","V","W","X","Y","Z">>

LowerLetters == {LowerSeq[i] : i \in DOMAIN LowerSeq}

UpperLetters == {UpperSeq[i] : i \in DOMAIN UpperSeq}

Digits == {"0","1","2","3","4","5","6","7","8","9"}

toLowerCaseChar(c) ==
    IF c \in UpperLetters
    THEN LowerSeq[CHOOSE i \in DOMAIN UpperSeq : UpperSeq[i] = c]
    ELSE c

toUpperCaseChar(c) ==
    IF c \in LowerLetters
    THEN UpperSeq[CHOOSE i \in DOMAIN LowerSeq : LowerSeq[i] = c]
    ELSE c

\* String.prototype.toLowerCase / toUpperCase
toLowerCase(s) == [i \in 1..Len(s) |-> toLowerCaseChar(s[i])]

toUpperCase(s) == [i \in 1..Len(s) |-> toUpperCaseChar(s[i])]

\* \s
IsWs(c) == c \in {" ", "\n", "\t"}

\* [a-z0-9]
IsAlnum(c) == c \in (LowerLetters \cup Digits)

NotAlnum(c) == ~IsAlnum(c)

\* [a-z0-9-]
IsWord(c) == IsAlnum(c) \/ c = "-"

\* [a-z0-9_-]
IsRepoChar(c) == IsWord(c) \/ c = "_"

\* [^\/]
NotSlash(c) == c # "/"

\* [:\s]
IsColonWs(c) == c = ":" \/ IsWs(c)

(***************************************************************************)
(* Regular-expression building blocks.  Every pattern of the source has the  *)
(* i flag and only ASCII literals, so it is matched against the lower-cased  *)
(* subject t; positions are those of the subject itself.                     *)
(***************************************************************************)
MinOf(S) == CHOOSE m \in S : \A k \in S : m <= k

\* End (exclusive) of the greedy run C+ / C* that starts at position i.
RunEnd(t, i, C(_)) ==
    MinOf({j \in i..(Len(t) + 1) : IF j > Len(t) THEN TRUE ELSE ~C(t[j])})

\* A literal at position i.
StartsAt(t, i, lit) ==
    /\ i >= 1
    /\ i + Len(lit) <= Len(t) + 1
    /\ \A k \in 1..Len(lit) : t[i + k - 1] = lit[k]

EndsWith(t, lit) ==
    /\ Len(lit) <= Len(t)
    /\ \A k \in 1..Len(lit) : t[Len(t) - Len(lit) + k] = lit[k]

\* A match: capture group 1 is subject[from..to].
NoMatch == [ok |-> FALSE, from |-> 0, to |-> 0]

Match(from, to) == [ok |-> TRUE, from |-> from, to |-> to]

\* String.prototype.match without the g flag: the match at the leftmost
\* position that has one; M(t, i) is the (backtracking) match anchored at i.
Leftmost(t, M(_, _)) ==
    LET hits == {i \in 1..Len(t) : M(t, i).ok}
    IN  IF hits = {} THEN NoMatch ELSE M(t, MinOf(hits))

\* String.prototype.slice(a, b) and substring(a, b), for 0 <= a <= b
slice(s, a, b) == SubSeq(s, a + 1, IF b < Len(s) THEN b ELSE Len(s))

substring(s, a, b) == slice(s, a, b)

(***************************************************************************)
(* Literals of the source                                                    *)
(***************************************************************************)
L_build == <<"b","u","i","l","d">>

L_create == <<"c","r","e","a","t","e">>

L_a == <<"a">>

L_an == <<"a","n">>

L_the == <<"t","h","e">>

L_service == <<"s","e","r","v","i","c","e">>

L_api == <<"a","p","i">>

L_endpoint == <<"e","n","d","p","o","i","n","t">>

L_project == <<"p","r","o","j","e","c","t">>

L_name == <<"n","a","m","e">>

L_github == <<"g","i","t","h","u","b",".","c","o","m","/">>

DEFAULT_NAME == <<"x","4","0","2","-","s","e","r","v","i","c","e">>

\* spec.slice(0, 30)
SliceLen == 30

\* name.length >= 2
MinCleanLen == 2

\* assertionMatch[1].length > 2
MinCandidateLen == 2

\* spec.length < 10 (src/unnamed/part_000)
MinSpecLen == 10

(***************************************************************************)
(* extractServiceName                                                        *)
(*   /(?:build|create)\s+(?:a|an|the)?\s*([a-z0-9-]+)\s+(?:service|api)/i    *)
(***************************************************************************)
\* ([a-z0-9-]+)\s+(?:service|api) anchored at q.  The capture is greedy and
\* must be followed by white space, so it is the whole run of word characters.
SpecTail(t, q) ==
    IF q < 1 \/ q > Len(t) THEN NoMatch
    ELSE LET r == RunEnd(t, q, IsWord)
             u == RunEnd(t, r, IsWs)
         IN  IF r > q /\ u > r /\ (StartsAt(t, u, L_service) \/ StartsAt(t, u, L_api))
             THEN Match(q, r - 1)
             ELSE NoMatch

\* (?:a|an|the)?\s*TAIL at p, the alternatives tried in the order written and
\* the empty alternative last; articles is <<a, an, the>> in src/index.tsx and
\* <<a, an>> in src/unnamed/part_000.
RECURSIVE ArticleThenTail(_, _, _, _)
ArticleThenTail(t, p, articles, k) ==
    IF k > Len(articles) THEN SpecTail(t, p)
    ELSE LET art == articles[k]
             m   == IF StartsAt(t, p, art)
                    THEN SpecTail(t, RunEnd(t, p + Len(art), IsWs))
                    ELSE NoMatch
         IN  IF m.ok THEN m ELSE ArticleThenTail(t, p, articles, k + 1)

\* The pattern anchored at i: the keyword, \s+ (at least one, then every
\* white-space character: what follows cannot start with one), then the rest.
SpecPatternAt(t, i, articles) ==
    LET kw == IF StartsAt(t, i, L_build) THEN L_build
              ELSE IF StartsAt(t, i, L_create) THEN L_create ELSE <<>>
        k  == i + Len(kw)
    IN  IF kw = <<>> THEN NoMatch
        ELSE LET p == RunEnd(t, k, IsWs)
             IN  IF p > k THEN ArticleThenTail(t, p, articles, 1) ELSE NoMatch

SpecPatternIndex(t, i) == SpecPatternAt(t, i, <<L_a, L_an, L_the>>)

SpecPatternLegacy(t, i) == SpecPatternAt(t, i, <<L_a, L_an>>)

\* .replace(/[^a-z0-9-]/g, "")
RECURSIVE KeepWordChars(_)
KeepWordChars(s) ==
    IF s = <<>> THEN <<>>
    ELSE (IF IsWord(Head(s)) THEN <<Head(s)>> ELSE <<>>) \o KeepWordChars(Tail(s))

\* .replace(/[^a-z0-9]+/g, "-")
RECURSIVE HyphenateFrom(_, _)
HyphenateFrom(t, i) ==
    IF i > Len(t) THEN <<>>
    ELSE IF IsAlnum(t[i]) THEN <<t[i]>> \o HyphenateFrom(t, i + 1)
    ELSE <<"-">> \o HyphenateFrom(t, RunEnd(t, i, NotAlnum))

\* .replace(/^-|-$/g, "")
TrimHyphens(t) ==
    LET a == IF Len(t) > 0 /\ t[1] = "-" THEN Tail(t) ELSE t
    IN  IF Len(a) > 0 /\ a[Len(a)] = "-" THEN SubSeq(a, 1, Len(a) - 1) ELSE a

\* spec.slice(0, 30).toLowerCase().replace(...).replace(...) || "x402-service"
SpecFallback(spec) ==
    LET n == TrimHyphens(HyphenateFrom(toLowerCase(slice(spec, 0, SliceLen)), 1))
    IN  IF n # <<>> THEN n ELSE DEFAULT_NAME

extractServiceNameWith(spec, M(_, _)) ==
    LET m == Leftmost(toLowerCase(spec), M)
    IN  IF m.ok /\ m.to >= m.from
        THEN KeepWordChars(toLowerCase(SubSeq(spec, m.from, m.to)))
        ELSE SpecFallback(spec)

\* src/index.tsx
extractServiceName(spec) == extractServiceNameWith(spec, SpecPatternIndex)

\* src/unnamed/part_000
extractServiceNameLegacy(spec) == extractServiceNameWith(spec, SpecPatternLegacy)

(***************************************************************************)
(* JavaScript values of the request                                          *)
(***************************************************************************)
\* An optional string: undefined, or the string s.
NoStr == [present |-> FALSE, s |-> <<>>]

Str(s) == [present |-> TRUE, s |-> s]

\* Truthiness of an optional string: undefined and "" are falsy.
Truthy(x) == x.present /\ x.s # <<>>

(***************************************************************************)
(* extractNameFromBlueprint                                                  *)
(***************************************************************************)
\* /github\.com\/[^\/]+\/([a-z0-9_-]+)/i anchored at i: [^\/]+ runs to the
\* next slash, which must exist, and the capture is the run after it.
RepoUrlAt(t, i) ==
    IF ~StartsAt(t, i, L_github) THEN NoMatch
    ELSE LET o == i + Len(L_github)
             e == RunEnd(t, o, NotSlash)
         IN  IF e > o /\ e <= Len(t)
             THEN LET r == RunEnd(t, e + 1, IsRepoChar)
                  IN  IF r > e + 1 THEN Match(e + 1, r - 1) ELSE NoMatch
             ELSE NoMatch

\* .replace(/^(x402-|the-|my-)/, '')
StripPrefix(n) ==
    IF StartsAt(n, 1, <<"x","4","0","2","-">>) THEN SubSeq(n, 6, Len(n))
    ELSE IF StartsAt(n, 1, <<"t","h","e","-">>) THEN SubSeq(n, 5, Len(n))
    ELSE IF StartsAt(n, 1, <<"m","y","-">>) THEN SubSeq(n, 4, Len(n))
    ELSE n

\* .replace(/(-service|-api)$/, '')
StripSuffix(n) ==
    IF EndsWith(n, <<"-","s","e","r","v","i","c","e">>) THEN SubSeq(n, 1, Len(n) - 8)
    ELSE IF EndsWith(n, <<"-","a","p","i">>) THEN SubSeq(n, 1, Len(n) - 4)
    ELSE n

\* /(?:service|project|name)[:\s]+([a-z0-9-]+)/i anchored at i
LabelAt(t, i) ==
    LET kw == IF StartsAt(t, i, L_service) THEN L_service
              ELSE IF StartsAt(t, i, L_project) THEN L_project
              ELSE IF StartsAt(t, i, L_name) THEN L_name ELSE <<>>
        k  == i + Len(kw)
    IN  IF kw = <<>> THEN NoMatch
        ELSE LET e == RunEnd(t, k, IsColonWs)
                 r == RunEnd(t, e, IsWord)
             IN  IF e > k /\ r > e THEN Match(e, r - 1) ELSE NoMatch

\* ([a-z0-9-]+)\s+(?:service|api|endpoint) anchored at q
AssertionTail(t, q) ==
    IF q < 1 \/ q > Len(t) THEN NoMatch
    ELSE LET r == RunEnd(t, q, IsWord)
             u == RunEnd(t, r, IsWs)
         IN  IF r > q /\ u > r /\ (\/ StartsAt(t, u, L_service)
                                   \/ StartsAt(t, u, L_api)
                                   \/ StartsAt(t, u, L_endpoint))
             THEN Match(q, r - 1)
             ELSE NoMatch

\* /(?:the\s+)?([a-z0-9-]+)\s+(?:service|api|endpoint)/i anchored at i: with
\* the optional group first, without it second.
AssertionAt(t, i) ==
    LET w    == RunEnd(t, i + Len(L_the), IsWs)
        with == IF StartsAt(t, i, L_the) /\ w > i + Len(L_the)
                THEN AssertionTail(t, w)
                ELSE NoMatch
    IN  IF with.ok THEN with ELSE AssertionTail(t, i)

\* ['the', 'this', 'a', 'an', 'hono', 'x402']
GenericWords == {<<"t","h","e">>, <<"t","h","i","s">>, <<"a">>, <<"a","n">>, <<"h","o","n","o">>, <<"x","4","0","2">>}

Named(n) == [threw |-> FALSE, name |-> n]

\* A TypeError: .match of undefined
Threw == [threw |-> TRUE, name |-> <<>>]

\* for (const assertion of blueprint.assertions) { ... } return "x402-service"
RECURSIVE ScanAssertions(_, _)
ScanAssertions(items, k) ==
    IF k > Len(items) THEN Named(DEFAULT_NAME)
    ELSE IF ~items[k].assertion.present THEN Threw
    ELSE LET text == items[k].assertion.s
             m    == Leftmost(toLowerCase(text), AssertionAt)
             name == toLowerCase(SubSeq(text, m.from, m.to))
         IN  IF m.ok /\ Len(name) > MinCandidateLen /\ name \notin GenericWords
             THEN Named(name)
             ELSE ScanAssertions(items, k + 1)

\* The chain with rule 2 (the label) tried before rule 1 (the repository URL)
extractNameFromBlueprintLabelFirst(blueprint) ==
    LET context == IF Truthy(blueprint.context) THEN blueprint.context.s ELSE <<>>
        lowered == toLowerCase(context)
        repoMatch == Leftmost(lowered, RepoUrlAt)
        name == StripSuffix(StripPrefix(toLowerCase(SubSeq(context, repoMatch.from, repoMatch.to))))
        explicitMatch == Leftmost(lowered, LabelAt)
    IN  IF explicitMatch.ok
        THEN Named(toLowerCase(SubSeq(context, explicitMatch.from, explicitMatch.to)))
        ELSE IF repoMatch.ok /\ Len(name) >= MinCleanLen THEN Named(name)
        ELSE ScanAssertions(blueprint.assertions, 1)

extractNameFromBlueprint(blueprint) ==
    LET context == IF Truthy(blueprint.context) THEN blueprint.context.s ELSE <<>>
        lowered == toLowerCase(context)
        repoMatch == Leftmost(lowered, RepoUrlAt)
        name == StripSuffix(StripPrefix(toLowerCase(SubSeq(context, repoMatch.from, repoMatch.to))))
        explicitMatch == Leftmost(lowered, LabelAt)
    IN  IF repoMatch.ok /\ Len(name) >= MinCleanLen THEN Named(name)
        ELSE IF explicitMatch.ok
        THEN Named(toLowerCase(SubSeq(context, explicitMatch.from, explicitMatch.to)))
        ELSE ScanAssertions(blueprint.assertions, 1)

(***************************************************************************)
(* Process-wide constants of src/index.tsx and src/unnamed/part_000          *)
(***************************************************************************)
\* An assertion.  Its examples are copied along with it and never read; they
\* are left out.  The text of a base assertion is never scanned: one token.
BaseAssertion(id, text, commentary) ==
    [id |-> id, assertion |-> Str(<<text>>), commentary |-> commentary]

BASE_ASSERTIONS == <<
    BaseAssertion("BASE-SCAFFOLD-001",
        "Scaffold as Hono app with x402-hono middleware. Create .gitignore FIRST before any yarn install.",
        "Hono + x402-hono is the standard x402 stack. .gitignore must be created FIRST."),
    BaseAssertion("BASE-X402-001",
        "Paid endpoints must use x402-hono paymentMiddleware with PAYMENT_WALLET_ADDRESS from env.",
        "x402 payment is the monetization mechanism for all paid endpoints."),
    BaseAssertion("BASE-DEPLOY-001",
        "Include railway.json for Railway deployment with NIXPACKS builder and health check.",
        "Railway deployment config enables one-click deployment."),
    BaseAssertion("BASE-BUILD-001",
        "Service must compile: 'yarn install' and 'yarn build' must both succeed without errors.",
        "Build verification catches issues before runtime."),
    BaseAssertion("BASE-RUN-001",
        "Service must start: 'yarn start' must launch server and respond to /health with 200 OK.",
        "Runtime verification confirms the service actually works.") >>

\* src/unnamed/part_000
BASE_BLUEPRINT == <<
    BaseAssertion("SCAFFOLD-001", "Scaffold as Hono app with x402-hono middleware",
        "Hono + x402-hono is the standard stack"),
    BaseAssertion("X402-001", "Paid endpoints must use x402-hono paymentMiddleware",
        "x402 is the monetization mechanism"),
    BaseAssertion("DEPLOY-001", "Include railway.json for Railway deployment",
        "Railway deployment config for one-click deploy"),
    BaseAssertion("BUILD-001", "Service must build: yarn install && yarn build must succeed",
        "Build verification catches issues before runtime") >>

(***************************************************************************)
(* The request body.  blueprint is a JSON value or a string of JSON text:    *)
(*   enc    how the field arrived: "absent", "object" (a JSON value) or      *)
(*          "string" (JSON text, to be parsed)                               *)
(*   shape  the value, or the value the text encodes: "none", "null",        *)
(*          "object"; for text also "empty" ("") and "malformed"             *)
(*   akind  the object's assertions field: "missing", "notlist", "list"      *)
(***************************************************************************)
Blueprint(enc, shape, akind, assertions, context) ==
    [enc |-> enc, shape |-> shape, akind |-> akind,
     assertions |-> assertions, context |-> context]

NoBlueprint == Blueprint("absent", "none", "missing", <<>>, NoStr)

\* Truthiness of the blueprint field: undefined, null and "" are falsy.
BlueprintTruthy(b) ==
    /\ b.enc # "absent"
    /\ ~(b.enc = "object" /\ b.shape = "null")
    /\ ~(b.enc = "string" /\ b.shape = "empty")

\* JSON.parse of a non-empty string: a SyntaxError, or the value it encodes.
JSONparse(b) ==
    IF b.shape = "malformed"
    THEN [threw |-> TRUE, value |-> NoBlueprint]
    ELSE [threw |-> FALSE, value |-> [b EXCEPT !.enc = "object"]]

\* userBlueprint?.assertions is truthy and Array.isArray(userBlueprint.assertions)
HasAssertionsArray(b) == b.shape = "object" /\ b.akind = "list"

\* String.prototype.includes
includes(s, lit) == \E i \in 1..Len(s) : StartsAt(s, i, lit)

(***************************************************************************)
(* Collaborators                                                             *)
(***************************************************************************)
\* What the repository host answers to a creation call: the fetch rejects
\* ("network"), or an HTTP response with res.ok and a body.
GitHubReply(label) ==
    CASE label = "created"  -> [fetched |-> TRUE, ok |-> TRUE, text |-> <<>>]
      [] label = "conflict" -> [fetched |-> TRUE, ok |-> FALSE,
                                text |-> <<"n","a","m","e"," ","a","l","r","e","a","d","y"," ","e","x","i","s","t","s"," ","o","n"," ","t","h","i","s"," ","a","c","c","o","u","n","t">>]
      [] label = "rejected" -> [fetched |-> TRUE, ok |-> FALSE, text |-> <<"B","a","d"," ","c","r","e","d","e","n","t","i","a","l","s">>]
      [] label = "network"  -> [fetched |-> FALSE, ok |-> FALSE, text |-> <<"f","e","t","c","h"," ","f","a","i","l","e","d">>]

GitHubReplies == {"created", "conflict", "rejected", "network"}

\* A createGitHubRepo that reports every outcome as a created repository
createGitHubRepoNeverThrows(reply) == [threw |-> FALSE, message |-> <<>>]

\* createGitHubRepo: returns the repository, or throws an Error with a message.
createGitHubRepo(reply) ==
    IF ~reply.fetched THEN [threw |-> TRUE, message |-> reply.text]
    ELSE IF ~reply.ok THEN [threw |-> TRUE, message |-> <<"G","i","t","H","u","b"," ","A","P","I"," ","e","r","r","o","r",":"," ">> \o reply.text]
    ELSE [threw |-> FALSE, message |-> <<>>]

\* A retry after any failure
IsAnyFailure(r) == r.threw

\* e.message?.includes("already exists")
IsNameConflict(r) == r.threw /\ includes(r.message, <<"a","l","r","e","a","d","y"," ","e","x","i","s","t","s">>)

\* Math.random().toString(36): "0" for 0, else "0." and base-36 digits.
RandomRenderings == {<<"0">>, <<"0",".","i">>, <<"0",".","k","7">>, <<"0",".","4","f","z","q","8">>}

SubstringFrom == 2

SubstringTo == 5

\* Math.random().toString(36).substring(2, 5).toUpperCase()
ShortIdOf(rendering) == toUpperCase(substring(rendering, SubstringFrom, SubstringTo))

\* repo.html_url for a repository created under the name n
HtmlUrl(n) == <<"https://github.com/owner/">> \o n

DispatchReplies == {"request_ids", "no_request_ids", "threw"}

(***************************************************************************)
(* Responses                                                                 *)
(***************************************************************************)
NoResponse == [status |-> 0, json |-> FALSE, error |-> "", jobId |-> FALSE]

\* c.json({ error }, status)
ErrorJson(status, error) ==
    [status |-> status, json |-> TRUE, error |-> error, jobId |-> FALSE]

\* c.json({ jobId, ... }, 201)
CreatedJson == [status |-> 201, json |-> TRUE, error |-> "", jobId |-> TRUE]

\* An exception that leaves the handler: the framework answers 500 with a
\* plain-text body.
Uncaught == [status |-> 500, json |-> FALSE, error |-> "", jobId |-> FALSE]

(***************************************************************************)
(* Blueprint assembly                                                        *)
(***************************************************************************)
\* new Set(BASE_ASSERTIONS.map(a => a.id))
baseIds == {BASE_ASSERTIONS[i].id : i \in DOMAIN BASE_ASSERTIONS}

\* userBlueprint.assertions.filter(a => !baseIds.has(a.id))
RECURSIVE userAssertionsFiltered(_)
userAssertionsFiltered(assertions) ==
    IF assertions = <<>> THEN <<>>
    ELSE (IF Head(assertions).id \notin baseIds THEN <<Head(assertions)>> ELSE <<>>)
         \o userAssertionsFiltered(Tail(assertions))

\* The merge without the filter: [...BASE_ASSERTIONS, ...userBlueprint.assertions]
MergedAssertionsUnfiltered(assertions) == BASE_ASSERTIONS \o assertions

\* [...BASE_ASSERTIONS, ...userAssertionsFiltered]
MergedAssertions(assertions) == BASE_ASSERTIONS \o userAssertionsFiltered(assertions)

NoFinalBlueprint == [assertions |-> <<>>, specification |-> <<>>, repository |-> <<>>,
                     instructions |-> FALSE]

\* The context is the sections joined by "\n": the specification text, the
\* target repository and, on the structured path, the build-instructions note.
StructuredBlueprint(ub, htmlUrl) ==
    [assertions |-> MergedAssertions(ub.assertions),
     specification |-> IF Truthy(ub.context) THEN ub.context.s
                       ELSE <<"(No additional context provided)">>,
     repository |-> htmlUrl,
     instructions |-> TRUE]

FreeformBlueprint(base, spec, htmlUrl) ==
    [assertions |-> base, specification |-> spec.s, repository |-> htmlUrl,
     instructions |-> FALSE]

\* An external call the handler issued.
RepoCall(name) == [op |-> "createGitHubRepo", name |-> name, blueprint |-> NoFinalBlueprint]

DispatchCall(name, blueprint) ==
    [op |-> "marketplaceInteract", name |-> name, blueprint |-> blueprint]

(***************************************************************************)
(* Requests the model sends                                                  *)
(***************************************************************************)
\* Longest caller assertion list
MaxAssertions == 2

SeqsUpTo(S, n) == UNION {[1..k -> S] : k \in 0..n}

UserAssertion(id, assertion) == [id |-> id, assertion |-> assertion, commentary |-> "caller"]

UserAssertions == {
    UserAssertion("BASE-SCAFFOLD-001", Str(<<"U","s","e"," ","E","x","p","r","e","s","s">>)),
    UserAssertion("WEATHER-001", Str(<<"E","x","p","o","s","e"," ","t","h","e"," ","w","e","a","t","h","e","r"," ","e","n","d","p","o","i","n","t">>)),
    UserAssertion("WEATHER-002", Str(<<"C","a","c","h","e"," ","f","o","r"," ","6","0"," ","s","e","c","o","n","d","s">>)),
    UserAssertion("WEATHER-002", NoStr) }

Contexts == {NoStr, Str(<<"g","i","t","h","u","b",".","c","o","m","/","a","c","m","e","/","x","4","0","2","-","i","n","v","o","i","c","e","-","a","p","i">>), Str(<<"s","e","r","v","i","c","e",":"," ","f","o","o">>)}

BlueprintObjects ==
    {Blueprint("object", "object", "list", a, c) :
        a \in SeqsUpTo(UserAssertions, MaxAssertions), c \in Contexts}
    \cup {Blueprint("object", "object", k, <<>>, NoStr) : k \in {"missing", "notlist"}}
    \cup {Blueprint("object", "null", "missing", <<>>, NoStr)}

BlueprintFields ==
    {NoBlueprint}
    \cup BlueprintObjects
    \cup {[b EXCEPT !.enc = "string"] : b \in BlueprintObjects}
    \cup {Blueprint("string", sh, "missing", <<>>, NoStr) : sh \in {"empty", "malformed"}}

SpecFields == {NoStr, Str(<<>>), Str(<<"t","o","o"," ","s","h","o","r","t">>),
               Str(<<"b","u","i","l","d"," ","a"," ","w","e","a","t","h","e","r","-","a","l","e","r","t","s"," ","s","e","r","v","i","c","e">>), Str(<<"P","a","y","m","e","n","t","s","!","!"," ","f","o","r"," ","c","a","t","s">>)}

NameFields == {NoStr, Str(<<>>), Str(<<"m","y","-","s","v","c">>), Str(<<"M","y"," ","R","e","p","o">>)}

\* parsed: whether c.req.json() could parse the body
Body(parsed, spec, blueprint, name) ==
    [parsed |-> parsed, spec |-> spec, blueprint |-> blueprint, name |-> name]

NoBody == Body(FALSE, NoStr, NoBlueprint, NoStr)

Bodies ==
    {NoBody} \cup
    {Body(TRUE, sp, b, n) : sp \in SpecFields, b \in BlueprintFields, n \in NameFields}

(***************************************************************************)
(* POST /build, up to the first repository-creation call                     *)
(***************************************************************************)
\* !githubToken || !mechAddress || !privateKey
NotConfigured == ~cfg.githubToken \/ ~cfg.mechAddress \/ ~cfg.privateKey

Done(response) == [done |-> TRUE, resp |-> response, userBlueprint |-> NoBlueprint]

Continue(ub) == [done |-> FALSE, resp |-> NoResponse, userBlueprint |-> ub]

\* typeof blueprint === 'string' ? JSON.parse(blueprint) : blueprint, and the
\* check of its assertions, inside the try of lines 212-219
ParseBlueprint(blueprint) ==
    LET parsed == IF blueprint.enc = "string" THEN JSONparse(blueprint)
                  ELSE [threw |-> FALSE, value |-> blueprint]
    IN  IF parsed.threw THEN Done(ErrorJson(400, "Invalid blueprint JSON"))
        ELSE IF ~HasAssertionsArray(parsed.value)
        THEN Done(ErrorJson(400, "Blueprint must have an 'assertions' array"))
        ELSE Continue(parsed.value)

\* src/index.tsx 189-220
ValidateBuild(body) ==
    IF ~body.parsed THEN Done(Uncaught)
    ELSE IF ~Truthy(body.spec) /\ ~BlueprintTruthy(body.blueprint)
    THEN Done(ErrorJson(400, "Either 'spec' or 'blueprint' is required"))
    ELSE IF Truthy(body.spec) /\ BlueprintTruthy(body.blueprint)
    THEN Done(ErrorJson(400, "Provide either 'spec' or 'blueprint', not both"))
    ELSE IF NotConfigured
    THEN Done(ErrorJson(500, "Server not configured for dispatch"))
    ELSE IF BlueprintTruthy(body.blueprint) THEN ParseBlueprint(body.blueprint)
    ELSE Continue(NoBlueprint)

\* src/unnamed/part_000 99-108
ValidateBuildLegacy(body) ==
    IF ~body.parsed THEN Done(Uncaught)
    ELSE IF ~Truthy(body.spec) \/ Len(body.spec.s) < MinSpecLen
    THEN Done(ErrorJson(400, "spec must be at least 10 characters"))
    ELSE IF NotConfigured
    THEN Done(ErrorJson(500, "Server not configured for dispatch"))
    ELSE Continue(NoBlueprint)

\* name || (userBlueprint ? extractNameFromBlueprint(userBlueprint)
\*                        : extractServiceName(spec!))
ServiceNameOf(body, ub) ==
    IF Truthy(body.name) THEN Named(body.name.s)
    ELSE IF ub # NoBlueprint THEN extractNameFromBlueprint(ub)
    ELSE Named(extractServiceName(body.spec.s))

\* name || extractServiceName(spec)
ServiceNameLegacy(body, ub) ==
    IF Truthy(body.name) THEN Named(body.name.s)
    ELSE Named(extractServiceNameLegacy(body.spec.s))

Respond(response) ==
    /\ pc' = "responded"
    /\ resp' = response

\* The handler from the request to its first await of createGitHubRepo.
Receive(body, v, n) ==
    /\ req' = body
    /\ userBlueprint' = v.userBlueprint
    /\ IF v.done
       THEN /\ Respond(v.resp)
            /\ UNCHANGED <<serviceName, shortId, repoName, calls>>
       ELSE IF n.threw
       THEN /\ Respond(Uncaught)
            /\ UNCHANGED <<serviceName, shortId, repoName, calls>>
       ELSE \E rendering \in RandomRenderings :
            /\ serviceName' = n.name
            /\ shortId' = ShortIdOf(rendering)
            /\ repoName' = n.name
            /\ calls' = <<RepoCall(n.name)>>
            /\ pc' = "createRepo"
            /\ UNCHANGED resp
    /\ UNCHANGED <<rev, cfg, finalBlueprint, results, probe, statusResp, exIn, exOut>>

PostBuild ==
    /\ pc = "idle"
    /\ rev = "index"
    /\ \E body \in Bodies :
         LET v == ValidateBuild(body)
         IN  Receive(body, v, IF v.done THEN Threw ELSE ServiceNameOf(body, v.userBlueprint))

PostBuildLegacy ==
    /\ pc = "idle"
    /\ rev = "part_000"
    /\ \E body \in Bodies :
         LET v == ValidateBuildLegacy(body)
         IN  Receive(body, v, IF v.done THEN Threw ELSE ServiceNameLegacy(body, v.userBlueprint))

(***************************************************************************)
(* POST /build, from the repository to the response                          *)
(***************************************************************************)
\* Lines 243-300: assemble the final blueprint and await marketplaceInteract.
FinalBlueprintOf(name) ==
    IF rev = "part_000" THEN FreeformBlueprint(BASE_BLUEPRINT, req.spec, HtmlUrl(name))
    ELSE IF userBlueprint # NoBlueprint THEN StructuredBlueprint(userBlueprint, HtmlUrl(name))
    ELSE FreeformBlueprint(BASE_ASSERTIONS, req.spec, HtmlUrl(name))

Dispatch(name) ==
    /\ finalBlueprint' = FinalBlueprintOf(name)
    /\ calls' = Append(calls, DispatchCall(serviceName, FinalBlueprintOf(name)))
    /\ pc' = "dispatch"
    /\ UNCHANGED <<repoName, resp>>

\* catch (e) { return c.json({ error: "Build failed", details: e.message }, 500) }
BuildFailed ==
    /\ Respond(ErrorJson(500, "Build failed"))
    /\ UNCHANGED <<repoName, finalBlueprint, calls>>

\* `${serviceName}-${shortId.toLowerCase()}`
SuffixedName == serviceName \o <<"-">> \o toLowerCase(shortId)

\* The first createGitHubRepo settles (lines 232-241).
CreateRepoReturns ==
    /\ pc = "createRepo"
    /\ \E label \in GitHubReplies :
         LET r == createGitHubRepo(GitHubReply(label))
         IN  /\ results' = Append(results, label)
             /\ IF ~r.threw THEN Dispatch(repoName)
                ELSE IF IsNameConflict(r)
                THEN /\ repoName' = SuffixedName
                     /\ calls' = Append(calls, RepoCall(SuffixedName))
                     /\ pc' = "createRepoRetry"
                     /\ UNCHANGED <<finalBlueprint, resp>>
                ELSE BuildFailed
    /\ UNCHANGED <<rev, cfg, req, serviceName, shortId, userBlueprint, probe, statusResp,
                   exIn, exOut>>

\* The createGitHubRepo of line 237 settles: a failure goes to the outer catch.
RetryReturns ==
    /\ pc = "createRepoRetry"
    /\ \E label \in GitHubReplies :
         LET r == createGitHubRepo(GitHubReply(label))
         IN  /\ results' = Append(results, label)
             /\ IF ~r.threw THEN Dispatch(repoName) ELSE BuildFailed
    /\ UNCHANGED <<rev, cfg, req, serviceName, shortId, userBlueprint, probe, statusResp,
                   exIn, exOut>>

\* marketplaceInteract settles (lines 302-325).
DispatchReturns ==
    /\ pc = "dispatch"
    /\ \E label \in DispatchReplies :
         /\ results' = Append(results, label)
         /\ Respond(IF label = "request_ids" THEN CreatedJson
                    ELSE ErrorJson(500, "Build failed"))
    /\ UNCHANGED <<rev, cfg, req, serviceName, shortId, repoName, userBlueprint,
                   finalBlueprint, calls, probe, statusResp, exIn, exOut>>

(***************************************************************************)
(* GET /status/:jobId                                                        *)
(***************************************************************************)
\* What the indexer answers: the fetch rejects, or a response with res.ok,
\* whose body is JSON or not; request is data.data.request, when it is there.
IndexerReply(fetched, ok, json, request, delivered, hash) ==
    [fetched |-> fetched, ok |-> ok, json |-> json, request |-> request,
     delivered |-> delivered, deliveryIpfsHash |-> hash]

NoProbe == IndexerReply(FALSE, FALSE, FALSE, FALSE, FALSE, NoStr)

IndexerReplies ==
    {NoProbe}
    \cup {IndexerReply(TRUE, ok, FALSE, FALSE, FALSE, NoStr) : ok \in BOOLEAN}
    \cup {IndexerReply(TRUE, ok, TRUE, FALSE, FALSE, NoStr) : ok \in BOOLEAN}
    \cup {IndexerReply(TRUE, ok, TRUE, TRUE, d, h) :
            ok \in BOOLEAN, d \in BOOLEAN, h \in {NoStr, Str(<<>>), Str(<<"Q","m","1","2","3">>)}}

GATEWAY == <<"h","t","t","p","s",":","/","/","g","a","t","e","w","a","y",".","a","u","t","o","n","o","l","a","s",".","t","e","c","h","/","i","p","f","s","/">>

StatusJson(status, error, jobStatus, reportUrl) ==
    [status |-> status, error |-> error, jobStatus |-> jobStatus, reportUrl |-> reportUrl]

NoStatus == StatusJson(0, "", "", <<>>)

\* Lines 334-359
StatusOf(reply) ==
    IF ~reply.fetched \/ ~reply.json THEN StatusJson(500, "Status query failed", "", <<>>)
    ELSE IF ~reply.request THEN StatusJson(200, "", "pending", <<>>)
    ELSE IF reply.delivered /\ Truthy(reply.deliveryIpfsHash)
    THEN StatusJson(200, "", "completed", GATEWAY \o reply.deliveryIpfsHash.s)
    ELSE StatusJson(200, "", "in_progress", <<>>)

GetStatus ==
    /\ pc = "idle"
    /\ \E reply \in IndexerReplies :
         /\ probe' = reply
         /\ statusResp' = StatusOf(reply)
    /\ pc' = "status"
    /\ UNCHANGED <<rev, cfg, req, serviceName, shortId, repoName, userBlueprint,
                   finalBlueprint, calls, results, resp, exIn, exOut>>

(***************************************************************************)
(* The service                                                               *)
(***************************************************************************)
Configs == [githubToken : BOOLEAN, mechAddress : BOOLEAN, privateKey : BOOLEAN]

NoExtract == [kind |-> "none", pieces |-> <<>>, assertions |-> <<>>]

Idle ==
    /\ req = NoBody
    /\ serviceName = <<>>
    /\ shortId = <<>>
    /\ repoName = <<>>
    /\ userBlueprint = NoBlueprint
    /\ finalBlueprint = NoFinalBlueprint
    /\ calls = <<>>
    /\ results = <<>>
    /\ resp = NoResponse
    /\ probe = NoProbe
    /\ statusResp = NoStatus
    /\ exOut = Named(<<>>)

Init ==
    /\ rev \in {"index", "part_000"}
    /\ cfg \in Configs
    /\ exIn = NoExtract
    /\ pc = "idle"
    /\ Idle

Next ==
    \/ PostBuild
    \/ PostBuildLegacy
    \/ CreateRepoReturns
    \/ RetryReturns
    \/ DispatchReturns
    \/ GetStatus

Spec == Init /\ [][Next]_vars

(***************************************************************************)
(* The name extractors on their own: inputs are built from a few pieces.     *)
(***************************************************************************)
\* Most pieces of one input
MaxPieces == 3

RECURSIVE Flatten(_)
Flatten(pieces) == IF pieces = <<>> THEN <<>> ELSE Head(pieces) \o Flatten(Tail(pieces))

SpecPieces == {<<"b","u","i","l","d"," ">>, <<"C","r","e","a","t","e"," "," ">>, <<"a">>, <<"t","h","e"," ">>, <<"w","e","a","t","h","e","r","-","a","l","e","r","t","s">>, <<"-","X","_">>,
               <<" ","s","e","r","v","i","c","e">>, <<" ","A","P","I">>, <<"!">>}

URL_PREFIX == <<"g","i","t","h","u","b",".","c","o","m","/","a","c","m","e","/">>

LABEL == <<" ","s","e","r","v","i","c","e",":"," ","f","o","o">>

RepoNames == {<<"x","4","0","2","-","i","n","v","o","i","c","e","-","a","p","i">>, <<"m","y","-","a">>, <<"F","o","o","_","B","a","r">>}

ContextPieces == {URL_PREFIX, LABEL, <<" ">>, <<"/">>, <<"N","a","m","e",":","b","a","r">>} \cup RepoNames

ExtractAssertions == {
    <<>>,
    <<UserAssertion("WEATHER-001", Str(<<"U","s","e","s"," ","t","h","e"," ","H","o","n","o"," ","A","P","I">>)),
      UserAssertion("WEATHER-002", Str(<<"E","x","p","o","s","e"," ","t","h","e"," ","W","e","a","t","h","e","r"," ","e","n","d","p","o","i","n","t">>))>>,
    <<UserAssertion("WEATHER-003", NoStr)>> }

ExtractInputs ==
    {[kind |-> "spec", pieces |-> p, assertions |-> <<>>] :
        p \in SeqsUpTo(SpecPieces, MaxPieces)}
    \cup {[kind |-> "blueprint", pieces |-> p, assertions |-> a] :
        p \in SeqsUpTo(ContextPieces, MaxPieces), a \in ExtractAssertions}

\* The blueprint of an input: no context when there are no pieces.
BlueprintOf(in) ==
    Blueprint("object", "object", "list", in.assertions,
              IF in.pieces = <<>> THEN NoStr ELSE Str(Flatten(in.pieces)))

ExtractFromSpec ==
    /\ pc = "extract"
    /\ exIn.kind = "spec"
    /\ exOut' = Named(extractServiceName(Flatten(exIn.pieces)))
    /\ pc' = "extracted"
    /\ UNCHANGED <<rev, cfg, req, serviceName, shortId, repoName, userBlueprint,
                   finalBlueprint, calls, results, resp, probe, statusResp, exIn>>

ExtractFromBlueprint ==
    /\ pc = "extract"
    /\ exIn.kind = "blueprint"
    /\ exOut' = extractNameFromBlueprint(BlueprintOf(exIn))
    /\ pc' = "extracted"
    /\ UNCHANGED <<rev, cfg, req, serviceName, shortId, repoName, userBlueprint,
                   finalBlueprint, calls, results, resp, probe, statusResp, exIn>>

InitExtract ==
    /\ rev = "index"
    /\ cfg = [githubToken |-> TRUE, mechAddress |-> TRUE, privateKey |-> TRUE]
    /\ exIn \in ExtractInputs
    /\ pc = "extract"
    /\ Idle

NextExtract ==
    \/ ExtractFromSpec
    \/ ExtractFromBlueprint

SpecExtract == InitExtract /\ [][NextExtract]_vars

(***************************************************************************)
(* Properties                                                                *)
(***************************************************************************)
\* A POST /build request has been received.
InBuild == pc \in {"createRepo", "createRepoRetry", "dispatch", "responded"}

IsRepoCall(c) == c.op = "createGitHubRepo"

IsDispatchCall(c) == c.op = "marketplaceInteract"

RepoCalls == SelectSeq(calls, IsRepoCall)

DispatchCalls == SelectSeq(calls, IsDispatchCall)

\* The field was sent with a value (not left out, not null).
SpecSupplied == req.spec.present

BlueprintSupplied ==
    /\ req.blueprint.enc # "absent"
    /\ ~(req.blueprint.enc = "object" /\ req.blueprint.shape = "null")

\* C1: a POST /build whose body carries a freeform spec shorter than 10
\* characters and no blueprint is answered 400, and no repository-creation
\* or dispatch call is issued.
C1_ShortSpecRejected ==
    (/\ InBuild
     /\ req.parsed
     /\ req.spec.present
     /\ Len(req.spec.s) < 10
     /\ req.blueprint = NoBlueprint)
    => (resp.status = 400 /\ calls = <<>>)

\* C2: a POST /build that supplies both spec and blueprint, or neither, is
\* answered 400 whatever the server configuration, and no repository-creation
\* or dispatch call is issued.
C2_BothOrNeitherRejected ==
    (/\ InBuild
     /\ rev = "index"
     /\ req.parsed
     /\ SpecSupplied = BlueprintSupplied)
    => (resp.status = 400 /\ calls = <<>>)

\* C3: a POST /build carrying a structured blueprint (an object, or a string
\* of JSON text encoding one) whose assertions field is missing or not a list
\* is answered 400, whatever the server configuration.
C3_BadAssertionsRejected ==
    (/\ InBuild
     /\ rev = "index"
     /\ req.parsed
     /\ req.blueprint.enc \in {"object", "string"}
     /\ req.blueprint.shape = "object"
     /\ req.blueprint.akind # "list")
    => resp.status = 400

\* The caller's assertions whose id is not the id of a base assertion
NotBaseId(a) == \A i \in DOMAIN BASE_ASSERTIONS : a.id # BASE_ASSERTIONS[i].id

\* The dispatch call of the structured path of src/index.tsx
StructuredDispatch(c) ==
    IsDispatchCall(c) /\ rev = "index" /\ BlueprintTruthy(req.blueprint)

\* C4: on the structured path, every base id that a caller assertion carries
\* occurs exactly once in the final assertion list, on the base version, and
\* the final list is BASE_ASSERTIONS followed by the caller assertions whose
\* id is not a base id, in their original order.
C4_BaseFirstDeduplicated ==
    \A k \in DOMAIN calls :
        StructuredDispatch(calls[k]) =>
            LET final  == calls[k].blueprint.assertions
                caller == req.blueprint.assertions
                clash  == {caller[i].id : i \in DOMAIN caller}
                          \cap {BASE_ASSERTIONS[i].id : i \in DOMAIN BASE_ASSERTIONS}
            IN  /\ \A b \in clash :
                     /\ Cardinality({i \in DOMAIN final : final[i].id = b}) = 1
                     /\ \A i \in DOMAIN final :
                          final[i].id = b =>
                              \E j \in DOMAIN BASE_ASSERTIONS : final[i] = BASE_ASSERTIONS[j]
                /\ final = BASE_ASSERTIONS \o SelectSeq(caller, NotBaseId)

\* C4's case: a dispatched structured blueprint whose caller list has an
\* assertion with a base id and one without.
C4_Witness ==
    \E k \in DOMAIN calls :
        /\ StructuredDispatch(calls[k])
        /\ \E i \in DOMAIN req.blueprint.assertions : ~NotBaseId(req.blueprint.assertions[i])
        /\ \E i \in DOMAIN req.blueprint.assertions : NotBaseId(req.blueprint.assertions[i])

\* C5: the final blueprint passed to the dispatcher never holds two
\* assertions with the same id.
C5_NoDuplicateIds ==
    \A k \in DOMAIN calls :
        IsDispatchCall(calls[k]) =>
            LET final == calls[k].blueprint.assertions
            IN  \A i, j \in DOMAIN final : i # j => final[i].id # final[j].id

\* [a-z0-9-]+ with no leading or trailing hyphen
SafeRepoName(n) ==
    /\ n # <<>>
    /\ \A i \in DOMAIN n : n[i] \in LowerLetters \cup Digits \cup {"-"}
    /\ n[1] # "-"
    /\ n[Len(n)] # "-"

\* C6: the name passed to every repository-creation call (first attempt and
\* suffixed retry) is non-empty, made of [a-z0-9-] only, and has no leading
\* or trailing hyphen.
C6_RepoNameSafe ==
    \A k \in DOMAIN calls : IsRepoCall(calls[k]) => SafeRepoName(calls[k].name)

\* C7: the name extractor never fails and returns a non-empty string that
\* matches ^[a-z0-9-]+$, for a freeform spec and for a blueprint.
C7_NameSafety ==
    pc = "extracted" =>
        /\ ~exOut.threw
        /\ exOut.name # <<>>
        /\ \A i \in DOMAIN exOut.name : exOut.name[i] \in LowerLetters \cup Digits \cup {"-"}

\* The retry's name is serviceName, a hyphen and a suffix of lower-case
\* letters and digits whose length is in lengths.
SuffixedBy(n, lengths) ==
    LET k == Len(serviceName)
    IN  /\ Len(n) > k
        /\ Len(n) - (k + 1) \in lengths
        /\ SubSeq(n, 1, k) = serviceName
        /\ n[k + 1] = "-"
        /\ \A j \in (k + 2)..Len(n) : n[j] \in LowerLetters \cup Digits

\* One retry, after a name conflict only; every other failure, and a failure
\* of the retry, ends the request with 500 and no further call.
RetryPolicy(lengths) ==
    /\ Len(RepoCalls) <= 2
    /\ Len(RepoCalls) >= 1 => RepoCalls[1].name = serviceName
    /\ Len(RepoCalls) = 2 <=> (Len(results) >= 1 /\ results[1] = "conflict")
    /\ Len(RepoCalls) = 2 => SuffixedBy(RepoCalls[2].name, lengths)
    /\ (Len(results) >= 1 /\ results[1] \in {"rejected", "network"})
           => (pc = "responded" /\ resp.status = 500 /\ Len(calls) = 1)
    /\ (Len(results) >= 2 /\ results[1] = "conflict" /\ results[2] # "created")
           => (pc = "responded" /\ resp.status = 500 /\ Len(calls) = 2)

\* C8 (as stated): after a name conflict on the first repository-creation
\* call the handler retries exactly once, under serviceName + "-" + a suffix
\* of 4 lower-case letters and digits; any other failure, and a failure of
\* the retry, ends the request, so a request issues at most two such calls.
C8_RetryWithFourCharSuffix == RetryPolicy({4})

\* C8 (amended): the same, with the suffix the code builds: characters 2 to 4
\* of the base-36 rendering of a random number, so at most 3 lower-case
\* letters and digits.
C8_RetryOnceOnConflict == RetryPolicy(0..3)

\* C8's case: the first call hit a name conflict and the retry has settled.
C8_Witness ==
    /\ Len(RepoCalls) = 2
    /\ Len(results) >= 2
    /\ results[1] = "conflict"
    /\ Len(shortId) = 3

\* C9: GET /status/:jobId answers pending when the indexer has no record,
\* in_progress when the record is not delivered, completed with a reportUrl
\* ending in /ipfs/<hash> when it is delivered with a hash, and 500 (never
\* pending) when the indexer call fails: a transport error, a non-success
\* response or a body that is not JSON.
C9_StatusMapping ==
    pc = "status" =>
        LET failed == ~probe.fetched \/ ~probe.ok \/ ~probe.json
        IN  /\ failed => (statusResp.status = 500 /\ statusResp.jobStatus # "pending")
            /\ (~failed /\ ~probe.request)
                   => (statusResp.status = 200 /\ statusResp.jobStatus = "pending")
            /\ (~failed /\ probe.request /\ ~probe.delivered)
                   => (statusResp.status = 200 /\ statusResp.jobStatus = "in_progress")
            /\ (~failed /\ probe.request /\ probe.delivered /\ Truthy(probe.deliveryIpfsHash))
                   => /\ statusResp.status = 200
                      /\ statusResp.jobStatus = "completed"
                      /\ EndsWith(statusResp.reportUrl,
                                  <<"/","i","p","f","s","/">> \o probe.deliveryIpfsHash.s)

\* The first repository URL of a context built from pieces, when it is
\* followed by a repository name that ends where the piece ends.
FirstUrl(p) == MinOf({k \in DOMAIN p : p[k] = URL_PREFIX})

HasUrlAndLabel ==
    /\ pc = "extracted"
    /\ exIn.kind = "blueprint"
    /\ \E k \in DOMAIN exIn.pieces : exIn.pieces[k] = URL_PREFIX
    /\ \E k \in DOMAIN exIn.pieces : exIn.pieces[k] = LABEL
    /\ LET p == exIn.pieces
           k == FirstUrl(p)
       IN  /\ k < Len(p)
           /\ p[k + 1] \in RepoNames
           /\ k + 2 <= Len(p) => p[k + 2][1] \in {" ", "/"}

UrlRepoName == exIn.pieces[FirstUrl(exIn.pieces) + 1]

\* The name rule 1 derives from each repository name of the model.
UrlDerived(repo) ==
    CASE repo = <<"x","4","0","2","-","i","n","v","o","i","c","e","-","a","p","i">> -> <<"i","n","v","o","i","c","e">>
      [] repo = <<"m","y","-","a">> -> <<"a">>
      [] repo = <<"F","o","o","_","B","a","r">> -> <<"f","o","o","_","b","a","r">>

\* C10 (as stated): when the context holds a repository URL and an explicit
\* label, extractNameFromBlueprint returns the name derived from the URL,
\* whatever the order of the two and whatever the repository name.
C10_UrlBeforeLabel ==
    HasUrlAndLabel => exOut = Named(UrlDerived(UrlRepoName))

\* C10 (amended): it returns the URL-derived name when that name has at
\* least 2 characters after the prefix and suffix are stripped; when it is
\* shorter, rule 1 is skipped and the label's token is returned.
C10_UrlBeforeLabelWhenLongEnough ==
    HasUrlAndLabel =>
        IF Len(UrlDerived(UrlRepoName)) >= 2
        THEN exOut = Named(UrlDerived(UrlRepoName))
        ELSE /\ ~exOut.threw
             /\ exOut.name # UrlDerived(UrlRepoName)
             /\ (\A k \in DOMAIN exIn.pieces : exIn.pieces[k] # <<"N","a","m","e",":","b","a","r">>)
                    => StartsAt(exOut.name, 1, <<"f","o","o">>)

\* C10's case: the label comes before the URL, and the URL's name is kept.
C10_Witness ==
    /\ HasUrlAndLabel
    /\ \E j \in DOMAIN exIn.pieces : exIn.pieces[j] = LABEL /\ j < FirstUrl(exIn.pieces)
    /\ exOut = Named(<<"i","n","v","o","i","c","e">>)

\* C11: every error outcome of POST /build and of GET /status/:jobId (a body
\* that cannot be parsed, a validation failure, missing configuration, a
\* failed repository creation, a failed dispatch, a failed indexer call) is
\* answered with a JSON object that has an error field; no request ends in
\* an exception that leaves the handler or in an error response that is not
\* JSON.
C11_ErrorsAreJson ==
    /\ (pc = "responded" /\ resp # CreatedJson) => (resp.json /\ resp.error # "")
    /\ (pc = "status" /\ (~probe.fetched \/ ~probe.ok \/ ~probe.json))
           => statusResp.error # ""

\* The reply to the k-th external call, once it has settled.
ReplyTo(k) == results[k]

\* The dispatch call is the last call of the request and follows a
\* repository-creation call that succeeded.
DispatchAfterRepo(i) ==
    /\ i > 1
    /\ i = Len(calls)
    /\ IsRepoCall(calls[i - 1])
    /\ Len(results) >= i - 1
    /\ ReplyTo(i - 1) = "created"

\* marketplaceInteract threw, or returned no request identifier.
DispatchFailed ==
    /\ Len(calls) > 0
    /\ IsDispatchCall(calls[Len(calls)])
    /\ Len(results) = Len(calls)
    /\ ReplyTo(Len(calls)) \in {"threw", "no_request_ids"}

\* C12: in every handling of POST /build the dispatch call is issued at most
\* once and only after a repository-creation call has succeeded; when the
\* dispatch fails (it throws, or returns no request identifier) the answer
\* is 500 and never 201, the dispatch is not retried, and no further call is
\* made against the created repository.
C12_DispatchOnceNoRollback ==
    /\ Len(DispatchCalls) <= 1
    /\ \A i \in DOMAIN calls : IsDispatchCall(calls[i]) => DispatchAfterRepo(i)
    /\ DispatchFailed =>
           /\ pc = "responded"
           /\ resp.status = 500
           /\ resp # CreatedJson
    /\ (pc = "responded" /\ resp.status = 201) =>
           /\ Len(DispatchCalls) = 1
           /\ Len(results) = Len(calls)
           /\ ReplyTo(Len(calls)) = "request_ids"

\* C12's case: the repository was created on the retry, the dispatch
\* returned no request identifier, and the request was answered.
C12_Witness ==
    /\ pc = "responded"
    /\ Len(RepoCalls) = 2
    /\ DispatchFailed
    /\ ReplyTo(Len(calls)) = "no_request_ids"
    /\ resp.status = 500

====
